---- MODULE Spec2Model ----
(***************************************************************************)
(* Collab-Finder (src/app.py): a Flask application over one SQLite file.   *)
(* The state is the database file (its tables, their columns and rows),    *)
(* the upload directory, the clock, each browser's session cookie and the  *)
(* position of each browser's request between two SQL statements.          *)
(*                                                                         *)
(* Text is a sequence of one-character strings, so that normalize_text,    *)
(* str.lower, secure_filename and Path.suffix are computed, not assumed.   *)
(* A write transaction (the statements between the first INSERT/UPDATE of  *)
(* a connection and its commit) is one step: SQLite serialises writers.    *)
(* The SELECTs that precede it run in autocommit mode and are a step of    *)
(* their own, so two requests interleave between a read and a write.       *)
(***************************************************************************)
EXTENDS Integers, Sequences, FiniteSets, TLC

(***************************************************************************)
(* Bounds of the model.                                                    *)
(***************************************************************************)
MaxUsers == 2
MaxMsgs == 2
MaxClock == 1
InboxUsers == 3
InboxMsgs == 3

(***************************************************************************)
(* Text.                                                                   *)
(***************************************************************************)
NULL == <<"NULL">>

UpperChars == <<"A","B","C","D","E","F","G","H","I","J","K","L","M",
                "N","O","P","Q","R","S","T","U","V","W","X","Y","Z">>
LowerChars == <<"a","b","c","d","e","f","g","h","i","j","k","l","m",
                "n","o","p","q","r","s","t","u","v","w","x","y","z">>
DigitChars == <<"0","1","2","3","4","5","6","7","8","9">>

Range(f) == {f[i] : i \in DOMAIN f}

IsSpace(ch) == ch \in {" ", "\t", "\n"}

lower_char(ch) ==
    IF \E i \in DOMAIN UpperChars : UpperChars[i] = ch
    THEN LowerChars[CHOOSE i \in DOMAIN UpperChars : UpperChars[i] = ch]
    ELSE ch

lower(s) == [i \in DOMAIN s |-> lower_char(s[i])]

RECURSIVE lstrip(_)
lstrip(s) ==
    IF s # <<>> /\ IsSpace(Head(s)) THEN lstrip(Tail(s)) ELSE s

RECURSIVE rstrip(_)
rstrip(s) ==
    IF s # <<>> /\ IsSpace(s[Len(s)]) THEN rstrip(SubSeq(s, 1, Len(s) - 1)) ELSE s

strip(s) == rstrip(lstrip(s))

\* re.sub(r"\s+", " ", s): every maximal run of whitespace becomes one space.
RECURSIVE collapse_ws(_)
collapse_ws(s) ==
    IF s = <<>> THEN <<>>
    ELSE IF IsSpace(Head(s)) THEN <<" ">> \o collapse_ws(lstrip(Tail(s)))
    ELSE <<Head(s)>> \o collapse_ws(Tail(s))

normalize_text(s) ==
    IF s = NULL \/ s = <<>> THEN <<>> ELSE strip(collapse_ws(s))

\* Python's "sub in s".
Contains(sub, s) ==
    \E i \in 0..(Len(s) - Len(sub)) : SubSeq(s, i + 1, i + Len(sub)) = sub

(***************************************************************************)
(* Password hashing (werkzeug): the hash verifies exactly the password it  *)
(* was generated from.                                                     *)
(***************************************************************************)
generate_password_hash(pw) == <<"pbkdf2">> \o pw

\* Faulty variant: every password verifies
check_password_hash_any(h, pw) == TRUE

check_password_hash(h, pw) == h = <<"pbkdf2">> \o pw

(***************************************************************************)
(* The database schema: a table is the set of its column names, {} when    *)
(* the table does not exist.                                               *)
(***************************************************************************)
ProfileTextCols == {"photo_filename", "title", "full_name", "highest_qualification",
                    "country", "university", "school_faculty", "position",
                    "supervisor_name", "bio", "skills", "device_access", "updated_at"}

\* ensure_schema: CREATE TABLE IF NOT EXISTS users / messages
EnsureUsersCols == {"id", "email", "password_hash", "created_at"} \cup ProfileTextCols
EnsureMessagesCols == {"id", "sender_id", "recipient_id", "body", "created_at", "read_at"}

\* init_db: CREATE TABLE IF NOT EXISTS users / profiles / messages
InitUsersCols == {"id", "email", "password_hash", "created_at"}
InitProfilesCols == {"user_id"} \cup ProfileTextCols
InitMessagesCols == {"id", "sender_id", "receiver_id", "body", "created_at", "is_read"}

NoTables == [users |-> {}, profiles |-> {}, messages |-> {}]

CreateIfNotExists(tabs, t, cols) ==
    IF tabs[t] = {} THEN [tabs EXCEPT ![t] = cols] ELSE tabs

\* A statement runs only if its table has every column it names; otherwise
\* sqlite3 raises OperationalError and the request ends with a 500.
HasCols(tabs, t, cols) == cols \subseteq tabs[t]

ensure_schema_tables(tabs) ==
    CreateIfNotExists(CreateIfNotExists(tabs, "users", EnsureUsersCols),
                      "messages", EnsureMessagesCols)

init_db_tables(tabs) ==
    LET t1 == CreateIfNotExists(tabs, "users", InitUsersCols)
        t2 == CreateIfNotExists(t1, "profiles", InitProfilesCols)
        t3 == CreateIfNotExists(t2, "messages", InitMessagesCols)
    IN  \* the migration loop adds every profiles column that is missing
        [t3 EXCEPT !.profiles = @ \cup ProfileTextCols]

(***************************************************************************)
(* Rows.                                                                   *)
(***************************************************************************)
UserRow(id, email, pwhash, now) ==
    [id |-> id, email |-> email, password_hash |-> pwhash, created_at |-> now]

\* INSERT INTO profiles(user_id, updated_at): every other column is NULL.
EmptyProfile(uid, now) ==
    [user_id |-> uid, photo_filename |-> NULL, title |-> NULL, full_name |-> NULL,
     highest_qualification |-> NULL, country |-> NULL, university |-> NULL,
     school_faculty |-> NULL, position |-> NULL, supervisor_name |-> NULL,
     bio |-> NULL, skills |-> NULL, device_access |-> NULL, updated_at |-> now]

\* INSERT INTO messages(sender_id, receiver_id, body, created_at): is_read DEFAULT 0.
MessageRow(id, sender, receiver, body, now) ==
    [id |-> id, sender_id |-> sender, receiver_id |-> receiver, body |-> body,
     created_at |-> now, is_read |-> 0]

(***************************************************************************)
(* State.                                                                  *)
(***************************************************************************)
Clients == {"c1", "c2"}

VARIABLES
    boot,       \* "import", "main" or "serving": how far start-up has come
    tables,     \* the schema of collab.db
    users,      \* rows of users, in id order (AUTOINCREMENT)
    profiles,   \* rows of profiles, in user_id order (the table's rowid)
    messages,   \* rows of messages, in id order (AUTOINCREMENT)
    files,      \* names of the files in UPLOAD_DIR
    clock,      \* datetime.utcnow(), in whole seconds
    session,    \* session[c]: the user_id of browser c's cookie, 0 when absent
    pc,         \* pc[c]: the request of browser c that is between two statements
    last        \* the response of the request that completed last, with the
                \* user_id of the session it was made for

vars == <<boot, tables, users, profiles, messages, files, clock, session, pc, last>>

Idle == [at |-> "idle", uid |-> 0, email |-> <<>>, target |-> 0, shown |-> <<>>]

Response(route, status, flash, data) ==
    [route |-> route, uid |-> 0, status |-> status, flash |-> flash, data |-> data]

UserIds(us) == {us[i].id : i \in DOMAIN us}

(***************************************************************************)
(* The database file found at start-up: absent, or left by an earlier run  *)
(* with the tables of init_db and one account whose profile row is missing *)
(* (the account profile_edit creates the row for on its first visit).      *)
(***************************************************************************)
EarlierUsers == <<UserRow(1, <<"a">>, generate_password_hash(<<"p">>), 0)>>

InitialDatabases ==
    { [tables |-> NoTables, users |-> <<>>],
      [tables |-> init_db_tables(NoTables), users |-> EarlierUsers] }

Init ==
    /\ boot = "import"
    /\ \E db \in InitialDatabases : tables = db.tables /\ users = db.users
    /\ profiles = <<>>
    /\ messages = <<>>
    /\ files = {}
    /\ clock = 0
    /\ session = [c \in Clients |-> 0]
    /\ pc = [c \in Clients |-> Idle]
    /\ last = Response("none", 0, "", <<>>)

(***************************************************************************)
(* Start-up.                                                               *)
(***************************************************************************)
\* line 1260: ensure_schema() runs when the module is imported
ensure_schema ==
    /\ boot = "import"
    /\ boot' = "main"
    /\ tables' = ensure_schema_tables(tables)
    /\ UNCHANGED <<users, profiles, messages, files, clock, session, pc, last>>

\* python app.py: init_db(), then app.run
init_db ==
    /\ boot = "main"
    /\ boot' = "serving"
    /\ tables' = init_db_tables(tables)
    /\ UNCHANGED <<users, profiles, messages, files, clock, session, pc, last>>

\* python app.py --reset-db: the file is unlinked, then init_db()
reset_db ==
    /\ boot = "main"
    /\ boot' = "serving"
    /\ tables' = init_db_tables(NoTables)
    /\ users' = <<>>
    /\ profiles' = <<>>
    /\ messages' = <<>>
    /\ UNCHANGED <<files, clock, session, pc, last>>

\* the module is imported by a WSGI server: __name__ is not "__main__"
wsgi_import ==
    /\ boot = "main"
    /\ boot' = "serving"
    /\ UNCHANGED <<tables, users, profiles, messages, files, clock, session, pc, last>>

Tick ==
    /\ clock < MaxClock
    /\ clock' = clock + 1
    /\ UNCHANGED <<boot, tables, users, profiles, messages, files, session, pc, last>>

\* A request of browser c starts: the server is up and c has none in flight.
Ready(c) == boot = "serving" /\ pc[c].at = "idle"

\* The request of browser c ends with this response.
Finish(c, resp) ==
    /\ pc' = [pc EXCEPT ![c] = Idle]
    /\ last' = [resp EXCEPT !.uid = session[c]]

\* An uncaught exception (sqlite3 error): the open transaction is rolled
\* back by con.close() and Flask answers 500.
Fail(c, route) ==
    /\ Finish(c, Response(route, 500, "", <<>>))
    /\ UNCHANGED <<boot, tables, users, profiles, messages, files, clock, session>>

(***************************************************************************)
(* Request inputs.                                                         *)
(***************************************************************************)
RawEmails == { <<>>, <<"a">>, <<" ", "A", " ">>, <<"b">>, <<"B">> }
RegisterPasswords == { <<>>, <<"p">> }
LoginPasswords == { <<"p">>, <<"q">> }

(***************************************************************************)
(* Constraints the schema declares.                                        *)
(***************************************************************************)
\* Faulty variant: the UNIQUE constraint on users.email is not declared
UniqueEmailNotDeclared(us, email) == FALSE

\* users.email TEXT UNIQUE: would a row with this email break it?
UniqueEmailViolated(us, email) == \E i \in DOMAIN us : us[i].email = email

\* Faulty variant: profiles.user_id is not declared the primary key
PrimaryKeyNotDeclared(ps, uid) == FALSE

\* profiles.user_id INTEGER PRIMARY KEY: would a row with this key break it?
PrimaryKeyViolated(ps, uid) == \E i \in DOMAIN ps : ps[i].user_id = uid

\* profiles.user_id REFERENCES users(id), with PRAGMA foreign_keys = ON
ForeignKeyViolated(us, uid) == uid \notin UserIds(us)

\* AUTOINCREMENT: one more than the largest id ever used (no row is deleted)
NextId(rows) == Len(rows) + 1

(***************************************************************************)
(* Queries.                                                                *)
(***************************************************************************)
\* SELECT ... FROM users WHERE email=?  (the rows, at most one)
users_by_email(us, email) == { us[i] : i \in { j \in DOMAIN us : us[j].email = email } }

\* Faulty variant: the WHERE clause is missing
fetch_user_any(us, user_id) == Range(us)

\* fetch_user: SELECT * FROM users WHERE id=?
fetch_user(us, user_id) == { us[i] : i \in { j \in DOMAIN us : us[j].id = user_id } }

\* fetch_profile: SELECT * FROM profiles WHERE user_id=?
fetch_profile(ps, user_id) == { ps[i] : i \in { j \in DOMAIN ps : ps[j].user_id = user_id } }

\* INSERT INTO profiles: the row takes its place in user_id order
insert_profile(ps, row) ==
    LET Lower(p) == p.user_id <= row.user_id
        Higher(p) == p.user_id > row.user_id
    IN  SelectSeq(ps, Lower) \o <<row>> \o SelectSeq(ps, Higher)

(***************************************************************************)
(* /register                                                               *)
(***************************************************************************)
\* POST /register up to the SELECT (lines 860-873)
register(c, raw_email, password) ==
    LET email == lower(normalize_text(raw_email)) IN
    /\ Ready(c)
    /\ IF email = <<>> \/ password = <<>>
       THEN /\ Finish(c, Response("register", 302, "error:required", <<>>))
            /\ UNCHANGED <<boot, tables, users, profiles, messages, files, clock, session>>
       ELSE IF users_by_email(users, email) # {}
       THEN /\ Finish(c, Response("register", 302, "warning:registered", <<>>))
            /\ UNCHANGED <<boot, tables, users, profiles, messages, files, clock, session>>
       ELSE /\ Len(users) < MaxUsers
            /\ pc' = [pc EXCEPT ![c] = [Idle EXCEPT !.at = "register_insert",
                                                   !.email = email]]
            /\ UNCHANGED <<boot, tables, users, profiles, messages, files, clock,
                           session, last>>

\* POST /register from the INSERTs to the redirect (lines 875-892): one transaction
register_insert(c, password) ==
    LET email == pc[c].email
        user_id == NextId(users)
        now == clock
    IN
    /\ pc[c].at = "register_insert"
    /\ IF UniqueEmailViolated(users, email)
          \/ ~HasCols(tables, "profiles", {"user_id", "updated_at"})
          \/ PrimaryKeyViolated(profiles, user_id)
       THEN Fail(c, "register")
       ELSE /\ Len(users) < MaxUsers
            /\ users' = Append(users,
                               UserRow(user_id, email, generate_password_hash(password), now))
            /\ profiles' = insert_profile(profiles, EmptyProfile(user_id, now))
            /\ session' = [session EXCEPT ![c] = user_id]
            /\ Finish(c, Response("register", 302, "success:created", <<>>))
            /\ UNCHANGED <<boot, tables, messages, files, clock>>

(***************************************************************************)
(* /login, /logout                                                         *)
(***************************************************************************)
login(c, raw_email, password) ==
    LET email == lower(normalize_text(raw_email))
        found == users_by_email(users, email)
    IN
    /\ Ready(c)
    /\ IF found = {} \/ \A u \in found : ~check_password_hash(u.password_hash, password)
       THEN /\ Finish(c, Response("login", 302, "error:invalid", <<>>))
            /\ UNCHANGED <<boot, tables, users, profiles, messages, files, clock, session>>
       ELSE /\ session' = [session EXCEPT ![c] = (CHOOSE u \in found : TRUE).id]
            /\ Finish(c, Response("login", 302, "success:logged_in", <<>>))
            /\ UNCHANGED <<boot, tables, users, profiles, messages, files, clock>>

\* Faulty variant: the session is not cleared
logout_keeps_session(c) ==
    /\ Ready(c)
    /\ Finish(c, Response("logout", 302, "info:logged_out", <<>>))
    /\ UNCHANGED <<boot, tables, users, profiles, messages, files, clock, session>>

logout(c) ==
    /\ Ready(c)
    /\ session' = [session EXCEPT ![c] = 0]
    /\ Finish(c, Response("logout", 302, "info:logged_out", <<>>))
    /\ UNCHANGED <<boot, tables, users, profiles, messages, files, clock>>

\* login_required when the session holds no user_id
NotLoggedIn(c, route) ==
    /\ Finish(c, Response(route, 302, "warning:login_first", <<>>))
    /\ UNCHANGED <<boot, tables, users, profiles, messages, files, clock, session>>

(***************************************************************************)
(* Upload helpers.                                                         *)
(***************************************************************************)
ALLOWED_EXTENSIONS == { <<".", "p", "n", "g">>, <<".", "j", "p", "g">>,
                        <<".", "j", "p", "e", "g">>, <<".", "w", "e", "b", "p">> }

\* str.strip("._")
RECURSIVE strip_dots(_)
strip_dots(s) ==
    IF s # <<>> /\ Head(s) \in {".", "_"} THEN strip_dots(Tail(s))
    ELSE IF s # <<>> /\ s[Len(s)] \in {".", "_"} THEN strip_dots(SubSeq(s, 1, Len(s) - 1))
    ELSE s

FilenameChar(ch) ==
    ch \in Range(UpperChars) \cup Range(LowerChars) \cup Range(DigitChars) \cup {"_", ".", "-"}

\* werkzeug.utils.secure_filename: path separators become blanks, the words
\* are joined by "_", every character outside [A-Za-z0-9_.-] is dropped and
\* leading and trailing dots and underscores are stripped.
secure_filename(name) ==
    LET spaced == [i \in DOMAIN name |-> IF name[i] \in {"/", "\\"} THEN " " ELSE name[i]]
        words == strip(collapse_ws(spaced))
        joined == [i \in DOMAIN words |-> IF words[i] = " " THEN "_" ELSE words[i]]
    IN  strip_dots(SelectSeq(joined, FilenameChar))

\* pathlib: Path(name).suffix, from the last dot when that dot is neither the
\* first nor the last character
suffix(name) ==
    LET dots == { i \in DOMAIN name : name[i] = "." } IN
    IF dots = {} THEN <<>>
    ELSE LET i == CHOOSE d \in dots : \A e \in dots : e <= d IN
         IF 1 < i /\ i < Len(name) THEN SubSeq(name, i, Len(name)) ELSE <<>>

\* Faulty variant: every extension is allowed
allowed_file_any(filename) == TRUE

allowed_file(filename) == lower(suffix(filename)) \in ALLOWED_EXTENSIONS

\* str(n) for n >= 0
RECURSIVE int_to_text(_)
int_to_text(n) ==
    IF n < 10 THEN <<DigitChars[n + 1]>>
    ELSE int_to_text(n \div 10) \o <<DigitChars[(n % 10) + 1]>>

\* f"user_{user_id}_{int(datetime.utcnow().timestamp())}{ext}"
out_name(user_id, now, ext) ==
    <<"u", "s", "e", "r", "_">> \o int_to_text(user_id) \o <<"_">> \o int_to_text(now) \o ext

\* save_photo: "none" (returns ""), "error" (raises ValueError) or "saved"
\* (the file is written under the returned name).  NULL is no file part.
save_photo(photo, user_id, now) ==
    LET filename == secure_filename(photo) IN
    IF photo = NULL \/ photo = <<>> THEN [kind |-> "none", name |-> <<>>]
    ELSE IF filename = <<>> THEN [kind |-> "none", name |-> <<>>]
    ELSE IF ~allowed_file(filename) THEN [kind |-> "error", name |-> <<>>]
    ELSE [kind |-> "saved", name |-> out_name(user_id, now, lower(suffix(filename)))]

(***************************************************************************)
(* /profile/edit                                                           *)
(***************************************************************************)
RequiredFields == {"full_name", "highest_qualification", "country", "university",
                   "position", "bio", "skills"}

Student == <<"S", "t", "u", "d", "e", "n", "t">>
Other == <<"O", "t", "h", "e", "r">>
X == <<"x">>
Blank == <<" ">>
GoodPhoto == <<"m", "e", ".", "P", "N", "G">>

\* what a browser may send as the name of the photo part (NULL: no part)
Photos == { NULL, <<>>, GoodPhoto, <<"m", "e", ".", "g", "i", "f">>,
            <<".", "p", "n", "g">>, <<".", ".", "/">> }

Form(position, supervisor_name, photo) ==
    [title |-> <<>>, full_name |-> <<" ", "x", " ">>, highest_qualification |-> X,
     country |-> X, university |-> X, school_faculty |-> <<>>, position |-> position,
     supervisor_name |-> supervisor_name, bio |-> X, skills |-> X,
     device_access |-> <<>>, photo |-> photo]

\* the submitted forms: a student's filled form with every photo, another
\* position's filled form, and forms with one required field left blank,
\* with and without a valid photo
Forms ==
    { Form(Student, X, ph) : ph \in Photos }
    \cup { Form(Other, X, NULL) }
    \cup { [Form(Student, X, ph) EXCEPT ![f] = Blank] :
              f \in RequiredFields, ph \in {NULL, GoodPhoto} }

\* Faulty variant: the supervisor name is never cleared
is_student_always(position) == TRUE

\* "student" in position.lower()
is_student(position) == Contains(<<"s", "t", "u", "d", "e", "n", "t">>, lower(position))

\* Faulty variant: the parameter is stored as it is
coalesce_first(value, stored) == value

\* COALESCE(?, photo_filename)
coalesce(value, stored) == IF value # NULL THEN value ELSE stored

\* the UPDATE of lines 990-1024 applied to one row
updated_profile(row, form, photo_filename, now) ==
    LET position == normalize_text(form.position)
        supervisor_name == IF is_student(position)
                           THEN normalize_text(form.supervisor_name) ELSE <<>>
    IN  [user_id |-> row.user_id,
         photo_filename |-> coalesce(photo_filename, row.photo_filename),
         title |-> normalize_text(form.title),
         full_name |-> normalize_text(form.full_name),
         highest_qualification |-> normalize_text(form.highest_qualification),
         country |-> normalize_text(form.country),
         university |-> normalize_text(form.university),
         school_faculty |-> normalize_text(form.school_faculty),
         position |-> position,
         supervisor_name |-> supervisor_name,
         bio |-> normalize_text(form.bio),
         skills |-> normalize_text(form.skills),
         device_access |-> normalize_text(form.device_access),
         updated_at |-> now]

\* Faulty variant: the fields are tested before they are normalized
form_is_valid_raw(form) == \A f \in RequiredFields : form[f] # <<>>

\* line 982: the validation of the required fields
form_is_valid(form) == \A f \in RequiredFields : normalize_text(form[f]) # <<>>

\* GET or POST /profile/edit up to fetch_profile (lines 945-949)
profile_edit(c) ==
    /\ Ready(c)
    /\ IF session[c] = 0 THEN NotLoggedIn(c, "profile_edit")
       ELSE IF ~HasCols(tables, "profiles", {"user_id"}) THEN Fail(c, "profile_edit")
       ELSE /\ pc' = [pc EXCEPT ![c] =
                        [Idle EXCEPT !.uid = session[c],
                                     !.at = IF fetch_profile(profiles, session[c]) = {}
                                            THEN "profile_edit_insert"
                                            ELSE "profile_edit_body"]]
            /\ UNCHANGED <<boot, tables, users, profiles, messages, files, clock,
                           session, last>>

\* the lazy creation of the profile row (lines 950-953): one transaction
profile_edit_insert(c) ==
    LET uid == pc[c].uid IN
    /\ pc[c].at = "profile_edit_insert"
    /\ IF PrimaryKeyViolated(profiles, uid) \/ ForeignKeyViolated(users, uid)
       THEN Fail(c, "profile_edit")
       ELSE /\ profiles' = insert_profile(profiles, EmptyProfile(uid, clock))
            /\ pc' = [pc EXCEPT ![c].at = "profile_edit_body"]
            /\ UNCHANGED <<boot, tables, users, messages, files, clock, session, last>>

\* GET /profile/edit: the form is rendered (lines 1029-1039)
profile_edit_get(c) ==
    /\ pc[c].at = "profile_edit_body"
    /\ Finish(c, Response("profile_edit", 200, "", <<>>))
    /\ UNCHANGED <<boot, tables, users, profiles, messages, files, clock, session>>

\* POST /profile/edit (lines 955-1027)
profile_edit_post(c, form) ==
    LET uid == pc[c].uid
        saved == save_photo(form.photo, uid, clock)
        photo_filename == IF saved.kind = "saved" THEN saved.name ELSE NULL
    IN
    /\ pc[c].at = "profile_edit_body"
    /\ IF saved.kind = "error"
       THEN /\ Finish(c, Response("profile_edit", 302, "error:file_type", <<>>))
            /\ UNCHANGED <<boot, tables, users, profiles, messages, files, clock, session>>
       ELSE /\ files' = IF saved.kind = "saved" THEN files \cup {saved.name} ELSE files
            /\ IF ~form_is_valid(form)
               THEN /\ Finish(c, Response("profile_edit", 302, "warning:required", <<>>))
                    /\ UNCHANGED profiles
               ELSE /\ profiles' = [i \in DOMAIN profiles |->
                                        IF profiles[i].user_id = uid
                                        THEN updated_profile(profiles[i], form,
                                                             photo_filename, clock)
                                        ELSE profiles[i]]
                    /\ Finish(c, Response("profile_edit", 302, "success:saved", <<>>))
            /\ UNCHANGED <<boot, tables, users, messages, clock, session>>

(***************************************************************************)
(* profile_is_complete, /profile, /u/<id>                                  *)
(***************************************************************************)
\* Faulty variant: device_access is required too
profile_is_complete_with_device(row) ==
    \A k \in {"full_name", "highest_qualification", "country", "university",
              "position", "bio", "skills", "device_access"} :
        normalize_text(row[k]) # <<>>

\* all(normalize_text(p.get(k, "")) for k in required)
profile_is_complete(row) ==
    \A k \in {"full_name", "highest_qualification", "country", "university",
              "position", "bio", "skills"} :
        normalize_text(row[k]) # <<>>

\* GET /profile
profile_card(c) ==
    LET prof == fetch_profile(profiles, session[c]) IN
    /\ Ready(c)
    /\ IF session[c] = 0 THEN NotLoggedIn(c, "profile_card")
       ELSE IF ~HasCols(tables, "profiles", {"user_id"}) THEN Fail(c, "profile_card")
       ELSE /\ IF prof = {}
               THEN Finish(c, Response("profile_card", 302, "", <<>>))
               ELSE Finish(c, Response("profile_card", 200, "",
                                       <<profile_is_complete(CHOOSE p \in prof : TRUE)>>))
            /\ UNCHANGED <<boot, tables, users, profiles, messages, files, clock, session>>

\* GET /u/<user_id>
view_profile(c, user_id) ==
    /\ Ready(c)
    /\ IF session[c] = 0 THEN NotLoggedIn(c, "view_profile")
       ELSE IF ~HasCols(tables, "profiles", {"user_id"}) THEN Fail(c, "view_profile")
       ELSE /\ IF fetch_profile(profiles, user_id) = {}
               THEN Finish(c, Response("view_profile", 404, "", <<>>))
               ELSE Finish(c, Response("view_profile", 200, "", <<session[c] # user_id>>))
            /\ UNCHANGED <<boot, tables, users, profiles, messages, files, clock, session>>

(***************************************************************************)
(* /search                                                                 *)
(***************************************************************************)
SearchLimit == 200

\* SQLite's LIKE: % is any run of characters, _ is any one character, the
\* letters compare without regard to case, and NULL matches nothing.
RECURSIVE like_from(_, _)
like_from(pattern, text) ==
    IF pattern = <<>> THEN text = <<>>
    ELSE IF Head(pattern) = "%"
         THEN like_from(Tail(pattern), text)
              \/ (text # <<>> /\ like_from(pattern, Tail(text)))
    ELSE /\ text # <<>>
         /\ Head(pattern) = "_" \/ lower_char(Head(pattern)) = lower_char(Head(text))
         /\ like_from(Tail(pattern), Tail(text))

like(text, pattern) == text # NULL /\ like_from(pattern, text)

\* the WHERE clause of lines 1078-1105
search_where(p, uid, q, university, position) ==
    /\ p.user_id # uid
    /\ university # <<>> => p.university = university
    /\ position # <<>> => p.position = position
    /\ q # <<>> =>
         \E f \in {"full_name", "title", "bio", "skills", "device_access",
                   "school_faculty", "supervisor_name"} :
             like(p[f], <<"%">> \o q \o <<"%">>)

\* the ids of a set of rows, ascending
IdsAscending(ids) ==
    LET top == IF ids = {} THEN 0 ELSE CHOOSE i \in ids : \A j \in ids : j <= i
        Has(i) == i \in ids
    IN  SelectSeq([i \in 1..top |-> i], Has)

\* Faulty variant: the query has no LIMIT
limit_ignored(rows, n) == rows

\* LIMIT n
limit(rows, n) == SubSeq(rows, 1, IF Len(rows) < n THEN Len(rows) ELSE n)

\* ORDER BY p.updated_at DESC LIMIT 200.  SQLite leaves the order of rows
\* with equal updated_at open: they come by ascending or by descending rowid.
search_rows(ps, uid, q, university, position, tie) ==
    LET hits == { p \in Range(ps) : search_where(p, uid, q, university, position) }
        at == [i \in { p.user_id : p \in hits } |->
                   (CHOOSE p \in hits : p.user_id = i).updated_at]
        Before(i, j) == \/ at[i] > at[j]
                        \/ at[i] = at[j] /\ IF tie = "asc" THEN i < j ELSE i > j
        ordered == SortSeq(IdsAscending(DOMAIN at), Before)
    IN  limit(ordered, SearchLimit)

SearchTexts == { <<>>, <<"X">>, <<"_">>, <<"z">> }
SearchUniversities == { <<>>, <<" ", "x">> }
SearchPositions == { <<>>, Student }

\* GET /search?q&university&position&do
search(c, do, raw_q, raw_university, raw_position, tie) ==
    LET uid == session[c]
        q == normalize_text(raw_q)
        university == normalize_text(raw_university)
        position == normalize_text(raw_position)
    IN
    /\ Ready(c)
    /\ IF uid = 0 THEN NotLoggedIn(c, "search")
       ELSE IF do # "1"
       THEN /\ Finish(c, Response("search", 200, "", <<>>))
            /\ UNCHANGED <<boot, tables, users, profiles, messages, files, clock, session>>
       ELSE IF ~HasCols(tables, "profiles", {"user_id"}) THEN Fail(c, "search")
       ELSE /\ Finish(c, Response("search", 200, "",
                          search_rows(profiles, uid, q, university, position, tie)))
            /\ UNCHANGED <<boot, tables, users, profiles, messages, files, clock, session>>

(***************************************************************************)
(* Messaging.                                                              *)
(***************************************************************************)
ThreadLimit == 500

Bodies == { <<>>, <<" ">>, <<"h", " ", " ", "i">> }

\* route ids: <int:user_id>
Targets == 0..(MaxUsers + 1)

\* Faulty variant: the self-message check is missing
is_self_unchecked(uid, user_id) == FALSE

\* line 1147: uid == user_id
is_self(uid, user_id) == uid = user_id

\* POST /message/send/<user_id>.  The SELECT of fetch_user and the INSERT are
\* one step: no request deletes a user, so nothing that runs between them
\* changes the outcome.
send_message(c, user_id, raw_body) ==
    LET uid == session[c]
        body == normalize_text(raw_body)
    IN
    /\ Ready(c)
    /\ IF uid = 0 THEN NotLoggedIn(c, "send_message")
       ELSE IF is_self(uid, user_id)
       THEN /\ Finish(c, Response("send_message", 302, "warning:self", <<>>))
            /\ UNCHANGED <<boot, tables, users, profiles, messages, files, clock, session>>
       ELSE IF body = <<>>
       THEN /\ Finish(c, Response("send_message", 302, "error:empty_body", <<>>))
            /\ UNCHANGED <<boot, tables, users, profiles, messages, files, clock, session>>
       ELSE IF fetch_user(users, user_id) = {}
       THEN /\ Finish(c, Response("send_message", 404, "", <<>>))
            /\ UNCHANGED <<boot, tables, users, profiles, messages, files, clock, session>>
       ELSE IF \/ ~HasCols(tables, "messages",
                           {"sender_id", "receiver_id", "body", "created_at"})
               \/ ForeignKeyViolated(users, uid)
               \/ ForeignKeyViolated(users, user_id)
       THEN Fail(c, "send_message")
       ELSE /\ Len(messages) < MaxMsgs
            /\ messages' = Append(messages,
                                  MessageRow(NextId(messages), uid, user_id, body, clock))
            /\ Finish(c, Response("send_message", 302, "success:sent", <<>>))
            /\ UNCHANGED <<boot, tables, users, profiles, files, clock, session>>

\* Faulty variant: the WHERE clause has lost "m.sender_id = ? OR"
inbox_rows_received(msgs, uid) ==
    LET mine == { i \in DOMAIN msgs : msgs[i].receiver_id = uid }
        LastOf(o) == CHOOSE i \in mine : msgs[i].sender_id = o /\
                         \A j \in mine : msgs[j].sender_id = o => msgs[j].id <= msgs[i].id
        lasts == { msgs[LastOf(msgs[i].sender_id)].id : i \in mine }
        Newer(a, b) == a > b
        ordered == SortSeq(IdsAscending(lasts), Newer)
    IN  [k \in DOMAIN ordered |->
            <<msgs[CHOOSE i \in mine : msgs[i].id = ordered[k]].sender_id, ordered[k]>>]

\* the inbox query (lines 1179-1190): <<other_id, last_msg_id>>, newest first
inbox_rows(msgs, uid) ==
    LET mine == { i \in DOMAIN msgs : msgs[i].sender_id = uid \/ msgs[i].receiver_id = uid }
        OtherOf(i) == IF msgs[i].sender_id = uid THEN msgs[i].receiver_id
                      ELSE msgs[i].sender_id
        LastOf(o) == CHOOSE i \in mine : OtherOf(i) = o /\
                         \A j \in mine : OtherOf(j) = o => msgs[j].id <= msgs[i].id
        lasts == { msgs[LastOf(OtherOf(i))].id : i \in mine }
        Newer(a, b) == a > b
        ordered == SortSeq(IdsAscending(lasts), Newer)
    IN  [k \in DOMAIN ordered |->
            <<OtherOf(CHOOSE i \in mine : msgs[i].id = ordered[k]), ordered[k]>>]

\* GET /inbox
inbox(c) ==
    LET uid == session[c] IN
    /\ Ready(c)
    /\ IF uid = 0 THEN NotLoggedIn(c, "inbox")
       ELSE IF ~HasCols(tables, "messages", {"id", "sender_id", "receiver_id"})
       THEN Fail(c, "inbox")
       ELSE /\ Finish(c, Response("inbox", 200, "", inbox_rows(messages, uid)))
            /\ UNCHANGED <<boot, tables, users, profiles, messages, files, clock, session>>

\* Faulty variant: the WHERE clause takes every message of the reader
thread_rows_of_reader(msgs, uid, user_id) ==
    LET Mine(m) == m.sender_id = uid \/ m.receiver_id = uid
        shown == limit(SelectSeq(msgs, Mine), ThreadLimit)
    IN  [k \in DOMAIN shown |-> shown[k].id]

\* the SELECT of lines 1230-1239: the ids of the first 500 messages of the pair
thread_rows(msgs, uid, user_id) ==
    LET Between(m) == \/ m.sender_id = uid /\ m.receiver_id = user_id
                      \/ m.sender_id = user_id /\ m.receiver_id = uid
        pair == SelectSeq(msgs, Between)
        shown == limit(pair, ThreadLimit)
    IN  [k \in DOMAIN shown |-> shown[k].id]

\* Faulty variant: the UPDATE marks the reader's own messages
mark_read_swapped(msgs, uid, user_id) ==
    [i \in DOMAIN msgs |->
        IF msgs[i].receiver_id = user_id /\ msgs[i].sender_id = uid /\ msgs[i].is_read = 0
        THEN [msgs[i] EXCEPT !.is_read = 1]
        ELSE msgs[i]]

\* Faulty variant: the UPDATE counts the openings
mark_read_counted(msgs, uid, user_id) ==
    [i \in DOMAIN msgs |->
        IF msgs[i].receiver_id = uid /\ msgs[i].sender_id = user_id
        THEN [msgs[i] EXCEPT !.is_read = @ + 1]
        ELSE msgs[i]]

\* Faulty variant: the UPDATE marks the whole conversation
mark_read_both(msgs, uid, user_id) ==
    [i \in DOMAIN msgs |->
        IF msgs[i].receiver_id \in {uid, user_id} /\ msgs[i].sender_id \in {uid, user_id}
        THEN [msgs[i] EXCEPT !.is_read = 1]
        ELSE msgs[i]]

\* the UPDATE of lines 1241-1247
mark_read(msgs, uid, user_id) ==
    [i \in DOMAIN msgs |->
        IF msgs[i].receiver_id = uid /\ msgs[i].sender_id = user_id /\ msgs[i].is_read = 0
        THEN [msgs[i] EXCEPT !.is_read = 1]
        ELSE msgs[i]]

\* GET /thread/<user_id> up to the SELECT of the messages (lines 1217-1239)
thread(c, user_id) ==
    LET uid == session[c] IN
    /\ Ready(c)
    /\ IF uid = 0 THEN NotLoggedIn(c, "thread")
       ELSE IF uid = user_id
       THEN /\ Finish(c, Response("thread", 302, "warning:self", <<>>))
            /\ UNCHANGED <<boot, tables, users, profiles, messages, files, clock, session>>
       ELSE IF ~HasCols(tables, "profiles", {"user_id"}) THEN Fail(c, "thread")
       ELSE IF fetch_profile(profiles, user_id) = {}
       THEN /\ Finish(c, Response("thread", 404, "", <<>>))
            /\ UNCHANGED <<boot, tables, users, profiles, messages, files, clock, session>>
       ELSE IF ~HasCols(tables, "messages", {"id", "sender_id", "receiver_id"})
       THEN Fail(c, "thread")
       ELSE /\ pc' = [pc EXCEPT ![c] =
                        [Idle EXCEPT !.at = "thread_update", !.uid = uid,
                                     !.target = user_id,
                                     !.shown = thread_rows(messages, uid, user_id)]]
            /\ UNCHANGED <<boot, tables, users, profiles, messages, files, clock,
                           session, last>>

\* GET /thread/<user_id> from the UPDATE to the response (lines 1241-1256)
thread_update(c) ==
    /\ pc[c].at = "thread_update"
    /\ IF ~HasCols(tables, "messages", {"sender_id", "receiver_id", "is_read"})
       THEN Fail(c, "thread")
       ELSE /\ messages' = mark_read(messages, pc[c].uid, pc[c].target)
            /\ Finish(c, Response("thread", 200, "", pc[c].shown))
            /\ UNCHANGED <<boot, tables, users, profiles, files, clock, session>>

(***************************************************************************)
(* Specifications.  Every one starts at Init and runs the start-up; each   *)
(* then serves the routes that read or write the tables it is about, with  *)
(* every interleaving of the steps of two browsers' requests.              *)
(***************************************************************************)
StartUp == ensure_schema \/ init_db \/ reset_db \/ wsgi_import

\* accounts and profile rows: /register, /login, /logout, /profile/edit, /profile
AccountForms == { Form(Student, X, NULL), [Form(Student, X, NULL) EXCEPT !.bio = Blank] }

NextAccounts ==
    \/ StartUp
    \/ \E c \in Clients :
        \/ \E e \in RawEmails, pw \in RegisterPasswords : register(c, e, pw)
        \/ \E pw \in RegisterPasswords \ {<<>>} : register_insert(c, pw)
        \/ \E e \in RawEmails, pw \in LoginPasswords : login(c, e, pw)
        \/ logout(c)
        \/ profile_edit(c)
        \/ profile_edit_insert(c)
        \/ profile_edit_get(c)
        \/ \E form \in AccountForms : profile_edit_post(c, form)
        \/ profile_card(c)

SpecAccounts == Init /\ [][NextAccounts]_vars

\* messages: /message/send, /inbox, /thread, with the accounts they are between
NextMessages ==
    \/ StartUp
    \/ \E c \in Clients :
        \/ \E e \in { <<"a">>, <<"b">> } : register(c, e, <<"p">>)
        \/ register_insert(c, <<"p">>)
        \/ \E e \in { <<"a">>, <<"b">> } : login(c, e, <<"p">>)
        \/ logout(c)
        \/ \E t \in Targets, b \in Bodies : send_message(c, t, b)
        \/ inbox(c)
        \/ \E t \in Targets : thread(c, t)
        \/ thread_update(c)

SpecMessages == Init /\ [][NextMessages]_vars

\* profile rows and uploads: one account in two browsers, /profile/edit with
\* every form, as time passes
NextProfiles ==
    \/ StartUp
    \/ Tick
    \/ \E c \in Clients :
        \/ register(c, <<"a">>, <<"p">>)
        \/ register_insert(c, <<"p">>)
        \/ login(c, <<"a">>, <<"p">>)
        \/ profile_edit(c)
        \/ profile_edit_insert(c)
        \/ profile_edit_get(c)
        \/ \E form \in Forms : profile_edit_post(c, form)

SpecProfiles == Init /\ [][NextProfiles]_vars

\* profile_is_complete on the rows a profiles table can hold: each required
\* column and two of the others, NULL, blank or filled
CompleteColumns == RequiredFields \cup {"device_access", "title"}

ProfileRows ==
    { [k \in DOMAIN EmptyProfile(1, 0) |->
          IF k \in CompleteColumns THEN r[k] ELSE EmptyProfile(1, 0)[k]] :
      r \in [CompleteColumns -> {NULL, Blank, <<" ", "x">>}] }

InitComplete ==
    /\ boot = "serving"
    /\ tables = init_db_tables(NoTables)
    /\ users = EarlierUsers
    /\ \E row \in ProfileRows : profiles = <<row>>
    /\ messages = <<>>
    /\ files = {}
    /\ clock = 0
    /\ session = [c \in Clients |-> 1]
    /\ pc = [c \in Clients |-> Idle]
    /\ last = Response("none", 0, "", <<>>)

NextComplete == \E c \in Clients : profile_card(c)

SpecComplete == InitComplete /\ [][NextComplete]_vars

\* search over directories of up to SearchLimit + 1 other profiles
DirectorySizes == {0, 1, 2, 3, 4, SearchLimit, SearchLimit + 1, SearchLimit + 2}

DirectoryUser(i) ==
    UserRow(i, <<"u">> \o int_to_text(i), generate_password_hash(<<"p">>), 0)

DirectoryProfile(i) ==
    updated_profile(EmptyProfile(i, 0),
                    Form(IF i % 2 = 0 THEN Student ELSE Other, X, NULL), NULL, i % 3)

InitSearch ==
    /\ boot = "serving"
    /\ tables = init_db_tables(NoTables)
    /\ \E n \in DirectorySizes :
         /\ users = [i \in 1..n |-> DirectoryUser(i)]
         /\ profiles = [i \in 1..n |-> DirectoryProfile(i)]
         /\ \E u \in {0, 1, 2, n} \cap 0..n :
               session = [c \in Clients |-> IF c = "c1" THEN u ELSE 0]
    /\ messages = <<>>
    /\ files = {}
    /\ clock = 0
    /\ pc = [c \in Clients |-> Idle]
    /\ last = Response("none", 0, "", <<>>)

NextSearch ==
    \E c \in Clients, do \in {"1", ""}, q \in SearchTexts,
       u \in SearchUniversities, p \in SearchPositions, tie \in {"asc", "desc"} :
           search(c, do, q, u, p, tie)

SpecSearch == InitSearch /\ [][NextSearch]_vars

\* sessions: the earlier account and a new one log in and out, and every
\* route that requires a login is requested
NextSessions ==
    \/ StartUp
    \/ \E c \in Clients :
        \/ register(c, <<"b">>, <<"p">>)
        \/ register_insert(c, <<"p">>)
        \/ \E e \in { <<"a">>, <<"b">> } : login(c, e, <<"p">>)
        \/ logout(c)
        \/ profile_edit(c)
        \/ profile_edit_insert(c)
        \/ profile_edit_get(c)
        \/ profile_edit_post(c, Form(Student, X, NULL))
        \/ profile_card(c)
        \/ search(c, "1", <<>>, <<>>, <<>>, "asc")
        \/ \E t \in 1..MaxUsers : view_profile(c, t)
        \/ \E t \in 1..MaxUsers : send_message(c, t, X)
        \/ inbox(c)
        \/ \E t \in 1..MaxUsers : thread(c, t)
        \/ thread_update(c)

SpecSessions == Init /\ [][NextSessions]_vars

\* every route, with profile edits that are saved and edits that are rejected
NextMonotone ==
    \/ NextSessions
    \/ \E c \in Clients : profile_edit_post(c, [Form(Student, X, NULL) EXCEPT !.bio = Blank])

SpecMonotone == Init /\ [][NextMonotone]_vars

\* start-up from an absent database file, then registrations and messaging
InitAbsent == Init /\ tables = NoTables /\ users = <<>>

SpecStartUp == InitAbsent /\ [][NextMessages]_vars

\* the inbox over every messages table that InboxUsers users can have built
\* with up to InboxMsgs sends (no user sends to themselves)
InboxPairs == { pr \in (1..InboxUsers) \X (1..InboxUsers) : pr[1] # pr[2] }

InboxTables ==
    UNION { [1..n -> InboxPairs] : n \in 0..InboxMsgs }

InitInbox ==
    /\ boot = "serving"
    /\ tables = init_db_tables(NoTables)
    /\ users = [i \in 1..InboxUsers |-> DirectoryUser(i)]
    /\ profiles = [i \in 1..InboxUsers |-> EmptyProfile(i, 0)]
    /\ \E t \in InboxTables :
          messages = [i \in DOMAIN t |-> MessageRow(i, t[i][1], t[i][2], X, 0)]
    /\ files = {}
    /\ clock = 0
    /\ session = [c \in Clients |-> IF c = "c1" THEN 1 ELSE 0]
    /\ pc = [c \in Clients |-> Idle]
    /\ last = Response("none", 0, "", <<>>)

NextInbox == \E c \in Clients : inbox(c)

SpecInbox == InitInbox /\ [][NextInbox]_vars

\* threads over long tables: users 1 and 2 write to each other in turn and
\* every fifth message is one of user 3 to user 1, so that a table of
\* n messages holds n - n \div 5 messages of the pair
ThreadSizes ==
    {0, 1, 2, 3, 5, 6} \cup
    { ThreadLimit + ThreadLimit \div 4 + d : d \in {-2, 0, 1, 2} }

ThreadMessage(i) ==
    IF i % 5 = 0 THEN MessageRow(i, 3, 1, X, 0)
    ELSE IF i % 2 = 0 THEN MessageRow(i, 2, 1, X, 0)
    ELSE MessageRow(i, 1, 2, X, 0)

InitThread ==
    /\ boot = "serving"
    /\ tables = init_db_tables(NoTables)
    /\ users = [i \in 1..3 |-> DirectoryUser(i)]
    /\ profiles = [i \in 1..3 |-> EmptyProfile(i, 0)]
    /\ \E n \in ThreadSizes : messages = [i \in 1..n |-> ThreadMessage(i)]
    /\ files = {}
    /\ clock = 0
    /\ \E u \in 1..3 : session = [c \in Clients |-> IF c = "c1" THEN u ELSE 0]
    /\ pc = [c \in Clients |-> Idle]
    /\ last = Response("none", 0, "", <<>>)

NextThread ==
    \E c \in Clients :
        \/ \E t \in 0..4 : thread(c, t)
        \/ thread_update(c)

SpecThread == InitThread /\ [][NextThread]_vars

(***************************************************************************)
(* Properties.                                                             *)
(***************************************************************************)
\* the email a registration or login form stands for
NormalizedEmail(raw) == lower(normalize_text(raw))

EmailStored(email) == \E i \in DOMAIN users : NormalizedEmail(users[i].email) = email

NoAccountChange == users' = users /\ profiles' = profiles /\ session' = session

\* C1: a POST /register whose normalized, lower-cased email is the email of
\* a stored user creates no user row, no profile row and no session, at the
\* SELECT and at the INSERT alike (every interleaving of two registrations),
\* and no two user rows ever hold the same normalized email.
C1_DuplicateEmailRejected ==
    /\ [](\A i, j \in DOMAIN users :
             i # j => NormalizedEmail(users[i].email) # NormalizedEmail(users[j].email))
    /\ [][ \/ NoAccountChange
           \/ /\ \A c \in Clients, e \in RawEmails, pw \in RegisterPasswords :
                    register(c, e, pw) => ~EmailStored(NormalizedEmail(e))
              /\ \A c \in Clients, pw \in RegisterPasswords :
                    register_insert(c, pw) => ~EmailStored(pc[c].email)
         ]_vars

\* C1 witness: a registration that passed the SELECT lost the race to another
\* one with the same email and failed at the INSERT.
C1_Witness ==
    /\ last.route = "register" /\ last.status = 500
    /\ tables.profiles # {}
    /\ Len(users) = 1

\* C10: each user row has at most one profile row and each profile row
\* belongs to a user row; a registration commits the user together with its
\* profile row; and when a /profile/edit request of a logged-in user ends,
\* with a page, a redirect or an error, that user has exactly one profile row.
ProfileCount(ps, uid) == Cardinality({ i \in DOMAIN ps : ps[i].user_id = uid })

C10_OneProfilePerUser ==
    /\ [](/\ \A u \in UserIds(users) : ProfileCount(profiles, u) <= 1
          /\ \A i \in DOMAIN profiles : profiles[i].user_id \in UserIds(users))
    /\ [][ /\ \A u \in UserIds(users') \ UserIds(users) : ProfileCount(profiles', u) = 1
           /\ \A c \in Clients :
                /\ pc[c].at \in {"profile_edit_insert", "profile_edit_body"}
                /\ pc'[c].at = "idle"
                => ProfileCount(profiles', pc[c].uid) = 1
           /\ \A c \in Clients :
                session[c] # 0 /\ last'.route = "profile_edit" /\ profile_edit(c)
                /\ pc'[c].at = "idle"
                => ProfileCount(profiles', session[c]) = 1
         ]_vars

\* C10 witness: two browsers of the same user found no profile row; the
\* second lazy INSERT failed on the primary key and the user has one row.
C10_Witness ==
    /\ last.route = "profile_edit" /\ last.status = 500
    /\ \E c \in Clients : session[c] # 0 /\ ProfileCount(profiles, session[c]) = 1

\* C2: no message row has its sender as its receiver, and a send whose
\* target is the logged-in user's own id appends no message row.
C2_NoSelfMessage ==
    /\ [](\A i \in DOMAIN messages : messages[i].sender_id # messages[i].receiver_id)
    /\ [][ \/ messages' = messages
           \/ \A c \in Clients, t \in Targets, b \in Bodies :
                send_message(c, t, b) => t # session[c]
         ]_vars

\* C2 witness: a logged-in user's send to their own id was turned away
\* while the table already holds a message.
C2_Witness ==
    /\ last.route = "send_message" /\ last.flash = "warning:self"
    /\ Len(messages) > 0

\* a send of a logged-in user to an id that is neither theirs nor a user row's
SendToNobody(c, t) == session[c] # 0 /\ t # session[c] /\ t \notin UserIds(users)

\* C3 as stated: a send to a nonexistent user is answered 404 and appends
\* nothing, whatever the body.
C3_Original ==
    [][ \A c \in Clients, t \in Targets, b \in Bodies :
            last'.route = "send_message" /\ SendToNobody(c, t) /\ send_message(c, t, b)
            => last'.status = 404 /\ messages' = messages
      ]_vars

\* C3 amended: a send to a nonexistent user appends nothing; it is answered
\* 404 when the body is non-empty after normalization, and by the redirect
\* with the empty-body notice when it is empty (the body is checked first).
NonBlank(text) == \E i \in DOMAIN text : ~IsSpace(text[i])

C3_MissingRecipient ==
    [][ \A c \in Clients, t \in Targets, b \in Bodies :
            last'.route = "send_message" /\ SendToNobody(c, t) /\ send_message(c, t, b)
            => /\ messages' = messages
               /\ NonBlank(b) => last'.status = 404
               /\ ~NonBlank(b) => last'.status = 302 /\ last'.flash = "error:empty_body"
      ]_vars

\* C3 witness: a send was answered 404 while other users exist.
C3_Witness ==
    /\ last.route = "send_message" /\ last.status = 404
    /\ Len(users) > 0

\* C4: when a GET /thread/<v> of user u completes, every message from v to u
\* that was in the table before its UPDATE (so every one that was there when
\* the request began: no row is deleted) has its read flag set.
C4_ThreadMarksRead ==
    [][ \A c \in Clients :
            pc[c].at = "thread_update" /\ last'.status = 200 /\ thread_update(c)
            => \A i \in DOMAIN messages :
                  messages[i].sender_id = pc[c].target /\ messages[i].receiver_id = pc[c].uid
                  => i \in DOMAIN messages' /\ messages'[i].is_read = 1
      ]_vars

\* C4 witness: a thread was shown and a message to its reader is now read.
C4_Witness ==
    /\ last.route = "thread" /\ last.status = 200
    /\ \E i \in DOMAIN messages : messages[i].is_read = 1

Unread(msgs, sender, receiver) ==
    { i \in DOMAIN msgs : /\ msgs[i].sender_id = sender
                          /\ msgs[i].receiver_id = receiver
                          /\ msgs[i].is_read # 1 }

\* C5: a GET /thread/<v> of user u leaves nothing unread from v to u, and
\* one that finds nothing unread from v to u (a reopening with no message
\* sent in between) changes no row of any table.
C5_ReopenIdempotent ==
    [][ \A c \in Clients :
            pc[c].at = "thread_update" /\ thread_update(c)
            => /\ last'.status = 200 => Unread(messages', pc[c].target, pc[c].uid) = {}
               /\ Unread(messages, pc[c].target, pc[c].uid) = {}
                  => messages' = messages /\ users' = users /\ profiles' = profiles
      ]_vars

\* C5 witness: a reopening is about to run its UPDATE: the messages to the
\* reader exist and an earlier opening has marked them all.
C5_Witness ==
    \E c \in Clients :
        /\ pc[c].at = "thread_update"
        /\ \E i \in DOMAIN messages :
              messages[i].sender_id = pc[c].target /\ messages[i].receiver_id = pc[c].uid
        /\ Unread(messages, pc[c].target, pc[c].uid) = {}

\* C6: once the server runs, no message row is deleted, no sender, receiver,
\* body or creation time changes, a read flag only goes from unset to set,
\* and only in the UPDATE of a GET /thread/<sender> made by the receiver.
C6_AppendOnly ==
    [][ boot = "serving" =>
          \/ messages' = messages
          \/ /\ Len(messages') >= Len(messages)
             /\ \A i \in DOMAIN messages :
                  /\ [messages'[i] EXCEPT !.is_read = 0] = [messages[i] EXCEPT !.is_read = 0]
                  /\ messages'[i].is_read >= messages[i].is_read
                  /\ messages'[i].is_read \in {0, 1}
                  /\ messages'[i].is_read # messages[i].is_read
                     => \E c \in Clients :
                           /\ thread_update(c)
                           /\ session[c] = messages[i].receiver_id
                           /\ pc[c].uid = messages[i].receiver_id
                           /\ pc[c].target = messages[i].sender_id
      ]_vars

\* C6 witness: two messages, the first one read.
C6_Witness ==
    /\ Len(messages) = 2
    /\ messages[1].is_read = 1
    /\ messages[2].is_read = 0

\* a column holds text: it is not NULL and not made of whitespace alone
HasText(value) == value # NULL /\ NonBlank(value)

\* C7: the profile card reports the profile complete if and only if each of
\* full_name, highest_qualification, country, university, position, bio and
\* skills holds a character that is not whitespace, whatever device_access
\* and the other columns hold.
C7_CompleteIffSevenFields ==
    last.route = "profile_card" /\ last.status = 200
    => last.data = << \A k \in {"full_name", "highest_qualification", "country",
                               "university", "position", "bio", "skills"} :
                         HasText(profiles[1][k]) >>

\* C7 witness: a profile with NULL device_access and title was reported complete.
C7_Witness ==
    /\ last.route = "profile_card" /\ last.data = <<TRUE>>
    /\ profiles[1].device_access = NULL /\ profiles[1].title = NULL

\* C8: the result list of a search never holds the profile of the user who
\* searched and never more than 200 entries.
C8_SearchExcludesSelfAndCaps ==
    last.route = "search" /\ last.status = 200 /\ last.uid # 0
    => /\ \A k \in DOMAIN last.data : last.data[k] # last.uid
       /\ Len(last.data) <= 200

\* C8 witness: more than 200 other profiles matched and 200 were returned.
C8_Witness ==
    /\ last.route = "search" /\ Len(last.data) = 200
    /\ Len(profiles) > 201
    /\ last.uid \in UserIds(users)

\* the request carries a photo part with a file name
CarriesPhoto(form) == form.photo # NULL /\ form.photo # <<>>

HasAllowedExtension(name) == lower(suffix(name)) \in ALLOWED_EXTENSIONS

\* the forms whose photo has no allowed extension: by the name the browser
\* sent, and by the name as secure_filename sanitises it
FormsUnsupportedAsSent ==
    { form \in Forms : CarriesPhoto(form) /\ ~HasAllowedExtension(form.photo) }

FormsUnsupportedAsSanitised ==
    { form \in Forms :
        CarriesPhoto(form) /\ ~HasAllowedExtension(secure_filename(form.photo)) }

\* a POST /profile/edit of browser c ends in this step
PostEnds(c) == pc[c].at = "profile_edit_body" /\ pc'[c].at = "idle"

Rejected == last'.status = 302 /\ last'.flash = "error:file_type"

\* C9 as stated: a POST /profile/edit with a photo whose extension is not
\* .png, .jpg, .jpeg or .webp flashes the error, redirects, stores no file
\* and leaves the profile rows as they were.
C9_Original ==
    [][ \A c \in Clients, form \in FormsUnsupportedAsSent :
            PostEnds(c) /\ profile_edit_post(c, form)
            => Rejected /\ files' = files /\ profiles' = profiles
      ]_vars

\* C9 amended: the same for a photo whose name as sanitised by
\* secure_filename is not empty and has no allowed extension; a photo whose
\* name sanitises to nothing is handled as no photo: no file is stored and
\* the stored photo filename stays, while the text fields are validated and
\* saved as usual.
C9_UnsupportedExtension ==
    [][ \A c \in Clients, form \in FormsUnsupportedAsSanitised :
            PostEnds(c) /\ profile_edit_post(c, form)
            => IF secure_filename(form.photo) # <<>>
               THEN Rejected /\ files' = files /\ profiles' = profiles
               ELSE /\ ~Rejected
                    /\ files' = files
                    /\ \A i \in DOMAIN profiles :
                          profiles'[i].photo_filename = profiles[i].photo_filename
      ]_vars

\* C9 witness: an upload was rejected for its file type while the profile
\* holds an earlier photo.
C9_Witness ==
    /\ last.route = "profile_edit" /\ last.flash = "error:file_type"
    /\ \E i \in DOMAIN profiles : profiles[i].photo_filename # NULL

\* the stored row of a user
ProfileOf(ps, uid) == ps[CHOOSE i \in DOMAIN ps : ps[i].user_id = uid]

\* the photo part names a file whose sanitised name has an allowed extension
ValidPhoto(form) ==
    /\ CarriesPhoto(form)
    /\ secure_filename(form.photo) # <<>>
    /\ HasAllowedExtension(secure_filename(form.photo))

\* a POST /profile/edit of browser c ends in this step with the profile saved
PostSaves(c) == PostEnds(c) /\ last'.flash = "success:saved"

IsSet(value) == value # NULL /\ value # <<>>

\* C11: a successful POST /profile/edit without a photo part, or with an
\* empty photo file name, leaves photo_filename as the row holds it; one with
\* a valid photo sets it to the name generated for the stored file; the
\* stored name changes only when a valid photo was sent, and a name that is
\* set is never set back to empty.
C11_PhotoCoalesce ==
    [][ \A c \in Clients :
          PostSaves(c) =>
            \A form \in Forms :
              profile_edit_post(c, form) =>
                LET before == ProfileOf(profiles, pc[c].uid).photo_filename
                    after == ProfileOf(profiles', pc[c].uid).photo_filename
                IN  /\ ~CarriesPhoto(form) => after = before
                    /\ ValidPhoto(form) =>
                          /\ after = out_name(pc[c].uid, clock,
                                              lower(suffix(secure_filename(form.photo))))
                          /\ after \in files'
                    /\ after # before => ValidPhoto(form)
                    /\ IsSet(before) => IsSet(after)
      ]_vars

\* C11 witness: the profile was saved at second 1 with no new photo, and it
\* still names the photo uploaded at second 0.
C11_Witness ==
    /\ last.route = "profile_edit" /\ last.flash = "success:saved"
    /\ \E i \in DOMAIN profiles :
          /\ profiles[i].updated_at = 1
          /\ profiles[i].photo_filename =
                <<"u", "s", "e", "r", "_", "1", "_", "0", ".", "p", "n", "g">>

\* the text names a student position, in any letter case
MentionsStudent(text) ==
    text # NULL /\
    \E i \in 1..(Len(text) - 6) :
        lower(SubSeq(text, i, i + 6)) = <<"s", "t", "u", "d", "e", "n", "t">>

\* C12: a profile whose stored supervisor_name is not empty has a stored
\* position that contains "student" in some letter case, and every successful
\* save whose normalized position does not contain it stores an empty
\* supervisor_name, whatever was submitted or stored before.
C12_SupervisorOnlyForStudents ==
    /\ [](\A i \in DOMAIN profiles :
             IsSet(profiles[i].supervisor_name) => MentionsStudent(profiles[i].position))
    /\ [][ \A c \in Clients :
             PostSaves(c) =>
               \A form \in Forms :
                 profile_edit_post(c, form) /\ ~MentionsStudent(normalize_text(form.position))
                 => ProfileOf(profiles', pc[c].uid).supervisor_name = <<>>
         ]_vars

\* C12 witness: a save with another position and a supervisor name in the
\* form left the supervisor name empty, after a save that had stored a photo.
C12_Witness ==
    /\ last.route = "profile_edit" /\ last.flash = "success:saved"
    /\ \E i \in DOMAIN profiles :
          /\ profiles[i].position = Other
          /\ profiles[i].supervisor_name = <<>>
          /\ IsSet(profiles[i].photo_filename)

\* a send of browser c to t that passes the validation: c is logged in, t
\* is another user's id and the body is not empty after normalization
SendPassesValidation(c, t, b) ==
    session[c] # 0 /\ t # session[c] /\ t \in UserIds(users) /\ NonBlank(b)

\* the step appends one row from sender to receiver with this body, unread,
\* under an id above every earlier one, and changes no other row
AppendsOneMessage(sender, receiver, body) ==
    /\ Len(messages') = Len(messages) + 1
    /\ SubSeq(messages', 1, Len(messages)) = messages
    /\ LET m == messages'[Len(messages')] IN
          /\ m.sender_id = sender /\ m.receiver_id = receiver
          /\ m.body = body /\ m.is_read = 0
          /\ \A i \in DOMAIN messages : m.id > messages[i].id
    /\ users' = users /\ profiles' = profiles

\* C13: a POST /message/send/<v> by logged-in user u, with u # v, v a user
\* and a body that is not empty after normalization, appends exactly one row
\* (sender u, receiver v, the normalized body, unread, the highest id) and
\* changes no other row; a send whose body is empty after normalization
\* appends nothing.
C13_Original ==
    [][ \A c \in Clients, t \in Targets, b \in Bodies :
            last'.route = "send_message" /\ session[c] # 0 /\ send_message(c, t, b)
            => IF SendPassesValidation(c, t, b)
               THEN AppendsOneMessage(session[c], t, normalize_text(b))
               ELSE ~NonBlank(b) => messages' = messages
      ]_vars

\* the ids of the messages between two users, in either direction
Exchanged(u, v) ==
    { messages[i].id : i \in { j \in DOMAIN messages :
        \/ messages[j].sender_id = u /\ messages[j].receiver_id = v
        \/ messages[j].sender_id = v /\ messages[j].receiver_id = u } }

\* C14: the inbox shown to user u has one entry for each other user with
\* whom u has exchanged a message in either direction and no other entry;
\* an entry names the highest message id between u and that user; the
\* entries come by that id, highest first.
C14_InboxOnePerCounterpart ==
    last.route = "inbox" /\ last.status = 200 /\ last.uid # 0
    => LET u == last.uid
           entries == last.data
           counterparts == { v \in UserIds(users) \ {u} : Exchanged(u, v) # {} }
       IN  /\ Len(entries) = Cardinality(counterparts)
           /\ { entries[k][1] : k \in DOMAIN entries } = counterparts
           /\ \A k \in DOMAIN entries :
                 /\ entries[k][2] \in Exchanged(u, entries[k][1])
                 /\ \A id \in Exchanged(u, entries[k][1]) : id <= entries[k][2]
           /\ \A k \in DOMAIN entries :
                 k < Len(entries) => entries[k][2] > entries[k + 1][2]

\* C14 witness: an inbox of two conversations, one of them of two messages.
C14_Witness ==
    /\ last.route = "inbox" /\ Len(last.data) = 2
    /\ Len(messages) = 3
    /\ \A i \in DOMAIN messages : last.uid \in {messages[i].sender_id, messages[i].receiver_id}

\* C15: the message list of GET /thread/<v> for user u holds only messages
\* between u and v, at most 500 of them, by ascending id, and all of them
\* when the two have at most 500; the page shows the list the SELECT read.
C15_ThreadList ==
    [][ /\ \A c \in Clients, t \in 0..4 :
              pc'[c].at = "thread_update" /\ thread(c, t)
              => LET shown == pc'[c].shown
                     pair == Exchanged(session[c], t)
                 IN  /\ \A k \in DOMAIN shown : shown[k] \in pair
                     /\ Len(shown) <= 500
                     /\ \A k \in DOMAIN shown : k < Len(shown) => shown[k] < shown[k + 1]
                     /\ Cardinality(pair) <= 500 => { shown[k] : k \in DOMAIN shown } = pair
        /\ \A c \in Clients :
              pc[c].at = "thread_update" /\ last'.status = 200 /\ thread_update(c)
              => last'.data = pc[c].shown
      ]_vars

\* C15 witness: a thread of 500 messages was shown to a user who has more
\* than 500 with that user and some with a third one.
C15_Witness ==
    /\ last.route = "thread" /\ last.status = 200 /\ Len(last.data) = 500
    /\ last.uid = 1
    /\ Cardinality(Exchanged(1, 2)) > 500
    /\ Exchanged(1, 3) # {}

\* the stored user this email and password belong to, if any
Credentials(us, raw_email, password) ==
    { us[i].id : i \in { j \in DOMAIN us :
        /\ us[j].email = NormalizedEmail(raw_email)
        /\ us[j].password_hash = generate_password_hash(password) } }

\* C16: a browser's session comes to hold user id u only in the step of a
\* POST /register that creates the user row u, or of a POST /login whose
\* normalized, lower-cased email is u's stored email and whose password is
\* the one u's hash was made from; a login with an unknown email or a wrong
\* password changes no session and no row.
C16_SessionOnlyByLoginOrRegister ==
    [][ \A c \in Clients :
          /\ session'[c] # session[c] /\ session'[c] # 0
             => \/ /\ pc[c].at = "register_insert"
                   /\ \E pw \in RegisterPasswords : register_insert(c, pw)
                   /\ session'[c] \in UserIds(users') \ UserIds(users)
                \/ \E e \in RawEmails, pw \in LoginPasswords :
                      /\ login(c, e, pw)
                      /\ session'[c] \in Credentials(users, e, pw)
          /\ last'.route = "login"
             => \A e \in RawEmails, pw \in LoginPasswords :
                   Credentials(users, e, pw) = {} /\ login(c, e, pw)
                   => /\ session' = session /\ users' = users
                      /\ profiles' = profiles /\ messages' = messages
      ]_vars

\* C16 witness: a browser logged in as one of two users tried to log in
\* with a wrong password or an unknown email and is still that user.
C16_Witness ==
    /\ last.route = "login" /\ last.flash = "error:invalid"
    /\ last.uid # 0
    /\ \E c \in Clients : session[c] = last.uid
    /\ Len(users) = 2

\* the step is a request of browser c to a route that requires a login
LoginRequiredRequest(c) ==
    \/ profile_edit(c)
    \/ profile_card(c)
    \/ search(c, "1", <<>>, <<>>, <<>>, "asc")
    \/ \E t \in 1..MaxUsers : view_profile(c, t)
    \/ \E t \in 1..MaxUsers : send_message(c, t, X)
    \/ inbox(c)
    \/ \E t \in 1..MaxUsers : thread(c, t)

\* C17: GET /logout leaves the session without a user id; a session without
\* one gets one only by a login or a registration; and while it has none,
\* every request to /profile/edit, /profile, /search, /u/<id>,
\* /message/send/<id>, /inbox and /thread/<id> ends at once with the redirect
\* to the login page: no statement runs (none fails, whatever the tables
\* are) and no user, profile or message row or file changes.
C17_LogoutClearsSession ==
    [][ \A c \in Clients :
          /\ last'.route = "logout" /\ logout(c) => session'[c] = 0
          /\ session[c] = 0 /\ session'[c] # 0 => last'.route \in {"login", "register"}
          /\ session[c] = 0 /\ LoginRequiredRequest(c)
             => /\ last'.status = 302 /\ last'.flash = "warning:login_first"
                /\ pc'[c].at = "idle"
                /\ session' = session
                /\ users' = users /\ profiles' = profiles /\ messages' = messages
                /\ files' = files
      ]_vars

\* C17 witness: messages were sent, every browser is logged out again and a
\* send was turned away to the login page.
C17_Witness ==
    /\ last.route = "send_message" /\ last.flash = "warning:login_first"
    /\ \A c \in Clients : session[c] = 0
    /\ Len(messages) > 0

\* the forms in which one of the seven required fields is empty after
\* normalization
FormsMissingField == { form \in Forms : \E f \in RequiredFields : ~NonBlank(form[f]) }

\* C18: a POST /profile/edit in which one of full_name,
\* highest_qualification, country, university, position, bio or skills is
\* empty after normalization flashes the notice, redirects to the edit form
\* and leaves the profile rows and the files of the upload directory as they
\* were, also when the request carries a photo with a valid extension.
C18_Original ==
    [][ \A c \in Clients, form \in FormsMissingField :
            PostEnds(c) /\ profile_edit_post(c, form)
            => /\ last'.status = 302 /\ last'.flash = "warning:required"
               /\ profiles' = profiles
               /\ files' = files
      ]_vars

\* q occurs in the text, letter case aside
OccursIn(q, text) ==
    text # NULL /\
    \E i \in 1..(Len(text) - Len(q) + 1) :
        lower(SubSeq(text, i, i + Len(q) - 1)) = lower(q)

\* the profile passes every filter that was supplied
SearchMatches(p, uid, q, university, position) ==
    /\ p.user_id # uid
    /\ university # <<>> => p.university = university
    /\ position # <<>> => p.position = position
    /\ q # <<>> =>
         \E f \in {"full_name", "title", "bio", "skills", "device_access",
                   "school_faculty", "supervisor_name"} : OccursIn(q, p[f])

\* C19: a GET /search with do=1 returns the profiles other than the
\* searcher's that pass every supplied filter (university equal, position
\* equal, q a case-insensitive substring of one of the seven fields), most
\* recently updated first and cut after 200; a request without do=1 returns
\* no results.
C19_Original ==
    [][ \A c \in Clients, do \in {"1", ""}, rq \in SearchTexts,
           ru \in SearchUniversities, rp \in SearchPositions, tie \in {"asc", "desc"} :
          session[c] # 0 /\ search(c, do, rq, ru, rp, tie)
          => IF do # "1" THEN last'.data = <<>>
             ELSE LET matches == { r.user_id : r \in
                          { r \in Range(profiles) :
                              SearchMatches(r, session[c], normalize_text(rq),
                                            normalize_text(ru), normalize_text(rp)) } }
                      at(id) == ProfileOf(profiles, id).updated_at
                      res == last'.data
                  IN  /\ \A k \in DOMAIN res : res[k] \in matches
                      /\ \A j, k \in DOMAIN res : j # k => res[j] # res[k]
                      /\ Len(res) = IF Cardinality(matches) < 200
                                    THEN Cardinality(matches) ELSE 200
                      /\ \A k \in DOMAIN res : k < Len(res) => at(res[k]) >= at(res[k + 1])
                      /\ \A m \in matches \ Range(res), k \in DOMAIN res :
                            at(m) <= at(res[k])
      ]_vars

\* C20: every successful upload is stored under the name generated from the
\* uploader's user id, the upload time and the allowed extension, and that
\* name is the name of no earlier upload (same user or another, same second
\* or another), so that no stored file is overwritten.
C20_Original ==
    [][ \A c \in Clients, form \in Forms :
            PostEnds(c) /\ ValidPhoto(form) /\ profile_edit_post(c, form)
            => LET name == out_name(pc[c].uid, clock,
                                    lower(suffix(secure_filename(form.photo))))
               IN  /\ files' = files \cup {name}
                   /\ name \notin files
      ]_vars

\* the tables and columns the statements of the request handlers name
UsableTables(tabs) ==
    /\ {"id", "email", "password_hash", "created_at"} \subseteq tabs.users
    /\ {"user_id", "photo_filename", "full_name", "position", "supervisor_name",
        "updated_at"} \subseteq tabs.profiles
    /\ {"id", "sender_id", "receiver_id", "body", "created_at", "is_read"}
          \subseteq tabs.messages

\* C21: from an absent database file, whichever way the server starts
\* (import alone, import then init_db, import then reset_db), the database
\* it serves from has the users, profiles and messages tables with the
\* columns the handlers use, so that send_message, inbox and thread never
\* fail on a statement; and reset_db leaves the three tables empty.
C21_Original ==
    /\ [](boot = "serving" => UsableTables(tables))
    /\ [](last.route \in {"send_message", "inbox", "thread"} => last.status # 500)
    /\ [][reset_db => users' = <<>> /\ profiles' = <<>> /\ messages' = <<>>]_vars

\* C22: every message whose read flag the UPDATE of a GET /thread/<v>
\* request sets is in the message list that request read and returns, also
\* when the two users have more than 500 messages and when a send from v
\* commits between the request's SELECT and its UPDATE.
C22_Original ==
    [][ \A c \in Clients :
            pc[c].at = "thread_update" /\ thread_update(c)
            => \A i \in DOMAIN messages :
                  messages'[i].is_read # messages[i].is_read
                  => /\ messages[i].id \in Range(pc[c].shown)
                     /\ messages[i].id \in Range(last'.data)
      ]_vars

\* each of the seven required columns of the row holds text
Complete(row) ==
    \A k \in {"full_name", "highest_qualification", "country", "university",
              "position", "bio", "skills"} : HasText(row[k])

\* C23: a profile row starts incomplete, whether register or the lazy
\* creation of /profile/edit inserts it; every successful POST /profile/edit
\* leaves the user's row complete; and once the server runs, no request of
\* any user (saved or rejected edits, searches, sends, thread and inbox
\* views, logins, logouts) removes a complete row or makes it incomplete.
C23_CompletenessMonotone ==
    [][ /\ \A j \in DOMAIN profiles' :
              (\A i \in DOMAIN profiles : profiles[i].user_id # profiles'[j].user_id)
              => ~Complete(profiles'[j])
        /\ \A c \in Clients :
              PostSaves(c) => Complete(ProfileOf(profiles', pc[c].uid))
        /\ boot = "serving" =>
              \A i \in DOMAIN profiles :
                Complete(profiles[i])
                => \E j \in DOMAIN profiles' :
                      /\ profiles'[j].user_id = profiles[i].user_id
                      /\ Complete(profiles'[j])
      ]_vars

\* C23 witness: an edit of a user whose profile is complete was rejected
\* for a missing field, after messages were sent, and the profile is complete.
C23_Witness ==
    /\ last.route = "profile_edit" /\ last.flash = "warning:required"
    /\ \E i \in DOMAIN profiles : profiles[i].user_id = last.uid /\ Complete(profiles[i])
    /\ Len(messages) > 0

====
